---- MODULE Spec2Model ----
(***************************************************************************)
(* A model of the LangGraph learning demo: the basic chatbot               *)
(* (src/src/examples/basic_chatbot.py) and the progress tracker            *)
(* (src/src/core/base.py).                                                 *)
(*                                                                         *)
(* Python lists are objects that are shared by reference, so the message   *)
(* lists live in a heap (reference -> sequence) and a state dict holds a   *)
(* reference.  Text is a TLA+ string; a raw line typed by the user is a    *)
(* sequence of characters so that strip() and lower() are computed.        *)
(***************************************************************************)
EXTENDS Integers, Sequences, FiniteSets, TLC

VARIABLES
    env_key,             \* os.getenv("OPENAI_API_KEY"): <<>> (unset) or <<value>>
    heap,                \* list objects: reference -> sequence of messages
    pc,                  \* position of the running program
    conversation_state,  \* run_chatbot_demo's conversation_state dict
    channels,            \* the state dict inside one execution of the compiled graph
    cur,                 \* the node the graph execution is at ("idle" outside one)
    state,               \* the state dict a direct caller of chatbot_node holds
    log,                 \* the chatbot_node calls made (per graph execution in the driver)
    lines_read,          \* how many times input() returned a line
    executions,          \* how many times chatbot.invoke was called
    turn,                \* what the driver did with the line it read last
    stdout,              \* the last line the driver printed
    student_progress,    \* ProgressTracker.student_progress: student id -> record
    clock,               \* what datetime.now() returns next
    recorded,            \* the record_module_completion calls made, in order
    report,              \* the dict get_student_progress returned last, held by its caller
    recommended,         \* the last recommend_next_steps call and its result
    exercises,           \* LearningModule.exercises: the exercise ids, in order
    summary              \* the last get_progress_summary call and its result

chatVars == <<env_key, heap, pc, conversation_state, channels, cur, state, log,
              lines_read, executions, turn, stdout>>

trackerVars == <<student_progress, clock, recorded, report, recommended>>

moduleVars == <<exercises, summary>>

coreVars == <<trackerVars, moduleVars>>

vars == <<chatVars, coreVars>>

-----------------------------------------------------------------------------
(* Bounds *)

MaxHist == 2     \* longest history a directly called chatbot_node starts from
MaxCalls == 2    \* direct calls of chatbot_node on the one state dict
MaxTurns == 3    \* lines the interactive driver reads
MaxSteps == 3    \* node runs one graph execution is followed for
MaxOps == 3      \* calls made on the progress tracker
MaxExercises == 3  \* exercises a learning module has

-----------------------------------------------------------------------------
(* Messages and text *)

HumanMessage(content) == [role |-> "user", content |-> content]

AIMessage(content) == [role |-> "assistant", content |-> content]

\* The reply-producing collaborator, llm.invoke(messages): it returns an
\* assistant message or raises an Exception carrying a description.
Replies == {"Hello!", ""}

Errors == {"API Error", ""}

Outcomes == [kind : {"ok"}, text : Replies] \cup [kind : {"fail"}, text : Errors]

NoRef == 0

NewRef(h) == Cardinality(DOMAIN h) + 1

\* A state dict with the message list read through the heap.
StateValue(h, st) ==
    [messages |-> IF st.messages = NoRef THEN <<>> ELSE h[st.messages],
     user_input |-> st.user_input,
     response |-> st.response]

-----------------------------------------------------------------------------
(* chatbot_node *)

\* llm = ChatOpenAI(model=..., temperature=..., api_key=os.getenv(...))
ChatOpenAI(key) == [model |-> "gpt-3.5-turbo", api_key |-> key]

\* messages = state.get("messages", []): the state's own list object, or a
\* fresh empty list when the key is absent.
GetMessages(h, st) ==
    IF st.messages = NoRef
    THEN [ref |-> NewRef(h), heap |-> h @@ (NewRef(h) :> <<>>)]
    ELSE [ref |-> st.messages, heap |-> h]

AppendUserFirst(msgs, user_input) ==
    IF user_input # "" THEN <<HumanMessage(user_input)>> \o msgs ELSE msgs

AppendUserAlways(msgs, user_input) == Append(msgs, HumanMessage(user_input))

\* if state.get("user_input"): messages.append(HumanMessage(content=...))
AppendUser(msgs, user_input) ==
    IF user_input # "" THEN Append(msgs, HumanMessage(user_input)) ELSE msgs

\* error_message = f"Sorry, I encountered an error: {str(e)}"
ErrorMessage(desc) == "Sorry, I encountered an error: " \o desc

OnSuccessKeepsInput(msgs, ref, ai_response) ==
    [messages |-> Append(msgs, ai_response),
     raised |-> <<>>,
     ret |-> <<[messages |-> ref,
                response |-> ai_response.content,
                user_input |-> IF msgs # <<>> /\ msgs[Len(msgs)].role = "user"
                               THEN msgs[Len(msgs)].content ELSE ""]>>]

\* The try body after llm.invoke returned ai_response.
OnSuccess(msgs, ref, ai_response) ==
    [messages |-> Append(msgs, ai_response),
     raised |-> <<>>,
     ret |-> <<[messages |-> ref,
                response |-> ai_response.content,
                user_input |-> ""]>>]

OnFailureReraise(msgs, ref, desc) ==
    [messages |-> msgs, raised |-> <<desc>>, ret |-> <<>>]

\* The except Exception handler.
OnFailure(msgs, ref, desc) ==
    [messages |-> Append(msgs, AIMessage(ErrorMessage(desc))),
     raised |-> <<>>,
     ret |-> <<[messages |-> ref,
                response |-> ErrorMessage(desc),
                user_input |-> ""]>>]

InvocationsRetry(msgs, out) ==
    IF out.kind = "fail" THEN <<msgs, msgs>> ELSE <<msgs>>

\* The arguments of the llm.invoke calls of one node run.
Invocations(msgs, out) == <<msgs>>

\* One run of chatbot_node(st) on heap h with the collaborator behaving as
\* out: the heap afterwards, the dict returned (or the exception raised)
\* and the histories llm.invoke was called with.
chatbot_node(h, st, key, out) ==
    LET llm == ChatOpenAI(key)
        got == GetMessages(h, st)
        ref == got.ref
        sent == AppendUser(got.heap[ref], st.user_input)
        end == IF out.kind = "ok"
               THEN OnSuccess(sent, ref, AIMessage(out.text))
               ELSE OnFailure(sent, ref, out.text)
    IN [heap |-> [got.heap EXCEPT ![ref] = end.messages],
        ret |-> end.ret,
        raised |-> end.raised,
        invoked |-> Invocations(sent, out),
        llm |-> llm]

\* The record of one call kept in log: values, not references.
CallRecord(h, st, out, r) ==
    [pre |-> StateValue(h, st),
     out |-> out,
     ret |-> IF r.ret = <<>> THEN <<>> ELSE <<StateValue(r.heap, r.ret[1])>>,
     raised |-> r.raised,
     invoked |-> r.invoked,
     input_after |-> StateValue(r.heap, st)]

-----------------------------------------------------------------------------
(* A direct caller of chatbot_node, as the unit tests are *)

Histories ==
    UNION {[1..n -> {HumanMessage("Previous message"), AIMessage("Previous response")}]
           : n \in 0..MaxHist}

Inputs == {"", "Hello"}

IdleTurn == [kind |-> "none", raw |-> <<>>, before |-> <<>>, executions |-> 0]

NoState == [messages |-> NoRef, user_input |-> "", response |-> ""]

\* ProgressTracker.__init__, and the clock.
TrackerIdle ==
    /\ student_progress = <<>>
    /\ clock = 0
    /\ recorded = <<>>
    /\ report = <<>>
    /\ recommended = <<>>

\* No LearningModule in use.
ModuleIdle ==
    /\ exercises = <<>>
    /\ summary = <<>>

InitNode ==
    /\ env_key \in {<<>>, <<"sk-test">>}
    /\ \E hist \in Histories, absent \in BOOLEAN, ui \in Inputs, resp \in {"", "old"} :
          /\ absent => hist = <<>>
          /\ heap = IF absent THEN <<>> ELSE <<hist>>
          /\ state = [messages |-> IF absent THEN NoRef ELSE 1,
                      user_input |-> ui, response |-> resp]
    /\ pc = "test"
    /\ conversation_state = NoState
    /\ channels = NoState
    /\ cur = "idle"
    /\ log = <<>>
    /\ lines_read = 0
    /\ executions = 0
    /\ turn = IdleTurn
    /\ stdout = ""
    /\ TrackerIdle
    /\ ModuleIdle

\* result = chatbot_node(state), the caller keeping its state dict.
CallNode(out) ==
    /\ pc = "test"
    /\ Len(log) < MaxCalls
    /\ LET r == chatbot_node(heap, state, env_key, out)
       IN /\ heap' = r.heap
          /\ log' = Append(log, CallRecord(heap, state, out, r))
    /\ UNCHANGED <<env_key, pc, conversation_state, channels, cur, state,
                   lines_read, executions, turn, stdout>>
    /\ UNCHANGED coreVars

NextNode == \E out \in Outcomes : CallNode(out)

SpecNode == InitNode /\ [][NextNode]_vars

-----------------------------------------------------------------------------
(* The compiled graph *)

END == "END"

create_looping_graph ==
    [nodes |-> {"chatbot"},
     entry |-> "chatbot",
     edges |-> {<<"chatbot", "chatbot">>}]

\* workflow.add_node("chatbot", chatbot_node); set_entry_point("chatbot");
\* add_edge("chatbot", END); compile()
create_chatbot_graph ==
    [nodes |-> {"chatbot"},
     entry |-> "chatbot",
     edges |-> {<<"chatbot", END>>}]

\* Where an execution goes after running node n.
Successors(g, n) == {e[2] : e \in {d \in g.edges : d[1] = n}}

-----------------------------------------------------------------------------
(* Text typed at the prompt *)

Whitespace == {" ", "\t"}

UpperCase == <<"A","B","C","D","E","F","G","H","I","J","K","L","M",
               "N","O","P","Q","R","S","T","U","V","W","X","Y","Z">>

LowerCase == <<"a","b","c","d","e","f","g","h","i","j","k","l","m",
               "n","o","p","q","r","s","t","u","v","w","x","y","z">>

LowerChar(c) ==
    IF \E i \in 1..Len(UpperCase) : UpperCase[i] = c
    THEN LowerCase[CHOOSE i \in 1..Len(UpperCase) : UpperCase[i] = c]
    ELSE c

\* str.lower()
Lower(chars) == [i \in 1..Len(chars) |-> LowerChar(chars[i])]

RECURSIVE LStrip(_)
LStrip(chars) ==
    IF chars # <<>> /\ Head(chars) \in Whitespace THEN LStrip(Tail(chars)) ELSE chars

RECURSIVE RStrip(_)
RStrip(chars) ==
    IF chars # <<>> /\ chars[Len(chars)] \in Whitespace
    THEN RStrip(SubSeq(chars, 1, Len(chars) - 1))
    ELSE chars

\* str.strip()
Strip(chars) == RStrip(LStrip(chars))

RECURSIVE ToStr(_)
ToStr(chars) == IF chars = <<>> THEN "" ELSE Head(chars) \o ToStr(Tail(chars))

\* The lines input() may return, as typed (run_chatbot_demo strips them).
Lines ==
    { <<>>, <<" ">>, <<" ", "\t">>,
      <<"h","i">>, <<" ","H","i"," ">>, <<"b","y","e","s">>,
      <<"q","u","i","t"," ","i","t">>,
      <<"q","u","i","t">>, <<" ","E","X","I","T"," ">>, <<"B","y","e","\t">> }

-----------------------------------------------------------------------------
(* The script: __main__ and run_chatbot_demo *)

NoKeyCheck(key) == FALSE

\* not os.getenv("OPENAI_API_KEY")
KeyMissing(key) == key = <<>> \/ key = <<"">>

IsQuitExactCase(chars) == ToStr(chars) \in {"quit", "exit", "bye"}

\* user_input.lower() in ['quit', 'exit', 'bye']
IsQuit(chars) == ToStr(Lower(chars)) \in {"quit", "exit", "bye"}

Init ==
    /\ env_key \in {<<>>, <<"">>, <<"sk-test">>}
    /\ heap = <<>>
    /\ pc = "main"
    /\ conversation_state = NoState
    /\ channels = NoState
    /\ cur = "idle"
    /\ state = NoState
    /\ log = <<>>
    /\ lines_read = 0
    /\ executions = 0
    /\ turn = IdleTurn
    /\ stdout = ""
    /\ TrackerIdle
    /\ ModuleIdle

\* if __name__ == "__main__": the credential check, then
\* demonstrate_graph_structure() and the start of run_chatbot_demo() up to
\* the loop.
Main ==
    /\ pc = "main"
    /\ IF KeyMissing(env_key)
       THEN /\ pc' = "exit1"
            /\ stdout' = "Error: OPENAI_API_KEY not found in environment variables."
            /\ UNCHANGED <<heap, conversation_state>>
       ELSE /\ pc' = "input"
            /\ stdout' = "Type 'quit' to exit the conversation"
            /\ heap' = heap @@ (NewRef(heap) :> <<>>)
            /\ conversation_state' =
                  [messages |-> NewRef(heap), user_input |-> "", response |-> ""]
    /\ UNCHANGED <<env_key, channels, cur, state, log, lines_read, executions, turn>>
    /\ UNCHANGED coreVars

\* One pass of the while loop from input() to the call of chatbot.invoke.
ReadLine(raw) ==
    /\ pc = "input"
    /\ lines_read < MaxTurns
    /\ lines_read' = lines_read + 1
    /\ LET user_input == Strip(raw)
           before == <<StateValue(heap, conversation_state)>>
       IN IF IsQuit(user_input)
          THEN /\ pc' = "done"
               /\ stdout' = "Goodbye! Thanks for trying the LangGraph chatbot!"
               /\ turn' = [kind |-> "quit", raw |-> raw, before |-> before,
                           executions |-> executions]
               /\ UNCHANGED <<conversation_state, channels, cur, log, executions>>
          ELSE IF user_input = <<>>
          THEN /\ turn' = [kind |-> "skip", raw |-> raw, before |-> before,
                           executions |-> executions]
               /\ UNCHANGED <<pc, stdout, conversation_state, channels, cur, log,
                              executions>>
          ELSE /\ conversation_state' =
                     [conversation_state EXCEPT !.user_input = ToStr(user_input)]
               /\ channels' = conversation_state'
               /\ cur' = create_chatbot_graph.entry
               /\ log' = <<>>
               /\ executions' = executions + 1
               /\ pc' = "graph"
               /\ turn' = [kind |-> "invoke", raw |-> raw, before |-> before,
                           executions |-> executions]
               /\ UNCHANGED stdout
    /\ UNCHANGED <<env_key, heap, state>>
    /\ UNCHANGED coreVars

\* input() raises EOFError outside the try block: the script ends.
EndOfInput ==
    /\ pc = "input"
    /\ pc' = "eof"
    /\ turn' = [kind |-> "eof", raw |-> <<>>,
                before |-> <<StateValue(heap, conversation_state)>>,
                executions |-> executions]
    /\ UNCHANGED <<env_key, heap, conversation_state, channels, cur, state, log,
                   lines_read, executions, stdout>>
    /\ UNCHANGED coreVars

\* The graph execution runs the node it is at and follows its edge; an
\* exception of the node leaves chatbot.invoke and is caught by the
\* driver's except Exception.
GraphStep(out) ==
    /\ pc = "graph"
    /\ cur \in create_chatbot_graph.nodes
    /\ Len(log) < MaxSteps
    /\ LET r == chatbot_node(heap, channels, env_key, out)
       IN /\ heap' = r.heap
          /\ log' = Append(log, CallRecord(heap, channels, out, r))
          /\ IF r.raised # <<>>
             THEN /\ pc' = "input"
                  /\ cur' = "idle"
                  /\ stdout' = "Error: " \o r.raised[1]
                  /\ UNCHANGED channels
             ELSE /\ channels' = r.ret[1]
                  /\ cur' \in Successors(create_chatbot_graph, cur)
                  /\ UNCHANGED <<pc, stdout>>
    /\ UNCHANGED <<env_key, conversation_state, state, lines_read, executions, turn>>
    /\ UNCHANGED coreVars

\* The execution reached END: chatbot.invoke returns the state, the driver
\* keeps it and prints the response.
GraphEnd ==
    /\ pc = "graph"
    /\ cur = END
    /\ conversation_state' = channels
    /\ stdout' = "Bot: " \o channels.response
    /\ pc' = "input"
    /\ cur' = "idle"
    /\ UNCHANGED <<env_key, heap, channels, state, log, lines_read, executions, turn>>
    /\ UNCHANGED coreVars

Next ==
    \/ Main
    \/ \E raw \in Lines : ReadLine(raw)
    \/ EndOfInput
    \/ \E out \in Outcomes : GraphStep(out)
    \/ GraphEnd

Spec == Init /\ [][Next]_vars

-----------------------------------------------------------------------------
(* ProgressTracker *)

Students == {"alice", "bob"}

Modules == {"m1", "m2", "m3"}

\* Scores in hundredths (0.8 is 80); nothing checks the range.
Scores == {80, 100}

Contains(list, x) == \E i \in 1..Len(list) : list[i] = x

AppendAlways(completed, module_id) == Append(completed, module_id)

\* if module_id not in progress["completed_modules"]: ....append(module_id)
AddCompleted(completed, module_id) ==
    IF ~Contains(completed, module_id) THEN Append(completed, module_id) ELSE completed

\* progress["module_scores"][module_id] = score
SetScore(scores, module_id, score) ==
    [m \in DOMAIN scores \cup {module_id} |-> IF m = module_id THEN score ELSE scores[m]]

\* The record made for a student id seen for the first time.
NewStudent(now) ==
    [completed_modules |-> <<>>,
     module_scores |-> <<>>,
     start_date |-> now,
     last_activity |-> now]

RecordCompletionShared(registry, student_id, module_id, score, now) ==
    LET known == IF student_id \in DOMAIN registry
                 THEN registry
                 ELSE registry @@ (student_id :> NewStudent(now))
    IN [t \in DOMAIN known |->
           IF t = student_id
           THEN [known[t] EXCEPT
                    !.completed_modules = AddCompleted(@, module_id),
                    !.module_scores = SetScore(@, module_id, score),
                    !.last_activity = now]
           ELSE [known[t] EXCEPT !.completed_modules = AddCompleted(@, module_id)]]

\* The registry after record_module_completion(student_id, module_id, score)
\* at time now.
RecordCompletion(registry, student_id, module_id, score, now) ==
    LET known == IF student_id \in DOMAIN registry
                 THEN registry
                 ELSE registry @@ (student_id :> NewStudent(now))
        progress == known[student_id]
    IN [known EXCEPT ![student_id] =
           [progress EXCEPT
               !.completed_modules = AddCompleted(@, module_id),
               !.module_scores = SetScore(@, module_id, score),
               !.last_activity = now]]

\* total_modules = 9  # Based on our learning system design
total_modules == 9

OverallProgressPerCall(completed_count) ==
    [num |-> completed_count * 100,
     den |-> IF recommended # <<>> THEN Len(recommended[1].available) ELSE total_modules]

\* (completed_count / total_modules * 100), kept as the exact fraction num/den.
OverallProgress(completed_count) ==
    [num |-> completed_count * 100, den |-> total_modules]

\* The literal 0.0 of the report for an unknown student.
ZeroProgress == [num |-> 0, den |-> 1]

GetStudentProgressCreates(registry, student_id) ==
    LET known == IF student_id \in DOMAIN registry
                 THEN registry
                 ELSE registry @@ (student_id :> NewStudent(clock))
        progress == known[student_id]
    IN [registry |-> known,
        aliased |-> TRUE,
        value |-> [student_id |-> student_id,
                   completed_modules |-> progress.completed_modules,
                   module_scores |-> progress.module_scores,
                   overall_progress |-> OverallProgress(Len(progress.completed_modules)),
                   start_date |-> <<progress.start_date>>,
                   last_activity |-> <<progress.last_activity>>]]

\* get_student_progress(student_id): the registry afterwards and the dict
\* returned.  For a known student the dict's completed_modules and
\* module_scores are the record's own list and dict objects (aliased); the
\* other fields are values.  None is <<>>.
GetStudentProgress(registry, student_id) ==
    IF student_id \notin DOMAIN registry
    THEN [registry |-> registry,
          aliased |-> FALSE,
          value |-> [student_id |-> student_id,
                     completed_modules |-> <<>>,
                     module_scores |-> <<>>,
                     overall_progress |-> ZeroProgress,
                     start_date |-> <<>>,
                     last_activity |-> <<>>]]
    ELSE LET progress == registry[student_id]
         IN [registry |-> registry,
             aliased |-> TRUE,
             value |-> [student_id |-> student_id,
                        completed_modules |-> progress.completed_modules,
                        module_scores |-> progress.module_scores,
                        overall_progress |->
                            OverallProgress(Len(progress.completed_modules)),
                        start_date |-> <<progress.start_date>>,
                        last_activity |-> <<progress.last_activity>>]]

\* What the held dict rep shows now: its aliased fields are read through
\* the registry.
ReportView(registry, rep) ==
    IF rep.aliased
    THEN [rep.value EXCEPT
             !.completed_modules = registry[rep.student_id].completed_modules,
             !.module_scores = registry[rep.student_id].module_scores]
    ELSE rep.value

\* The code points of the module ids used, for Python's str comparison.
CodePoints ==
    ("m1" :> <<109, 49>>) @@ ("m2" :> <<109, 50>>) @@ ("m3" :> <<109, 51>>) @@
    ("m10" :> <<109, 49, 48>>)

RECURSIVE SeqLess(_, _)
SeqLess(x, y) ==
    IF y = <<>> THEN FALSE
    ELSE IF x = <<>> THEN TRUE
    ELSE IF Head(x) < Head(y) THEN TRUE
    ELSE IF Head(x) > Head(y) THEN FALSE
    ELSE SeqLess(Tail(x), Tail(y))

\* a < b for two str
StrLess(a, b) == SeqLess(CodePoints[a], CodePoints[b])

KeepAll(available, completed) == available

\* [module for module in available_modules if module not in completed]
NotCompleted(available, completed) ==
    SelectSeq(available, LAMBDA module : ~Contains(completed, module))

RECURSIVE Insert(_, _)
Insert(sorted, x) ==
    IF sorted = <<>> THEN <<x>>
    ELSE IF StrLess(x, Head(sorted)) THEN <<x>> \o sorted
    ELSE <<Head(sorted)>> \o Insert(Tail(sorted), x)

RECURSIVE SortIds(_)
\* recommendations.sort()
SortIds(list) ==
    IF list = <<>> THEN <<>>
    ELSE Insert(SortIds(SubSeq(list, 1, Len(list) - 1)), list[Len(list)])

TopAll(list) == list

\* recommendations[:3]
Top3(list) == SubSeq(list, 1, IF Len(list) < 3 THEN Len(list) ELSE 3)

\* recommend_next_steps(student_id, available_modules): the registry
\* afterwards and the list returned.
RecommendNextSteps(registry, student_id, available) ==
    LET progress == GetStudentProgress(registry, student_id)
        completed == progress.value.completed_modules
    IN [registry |-> progress.registry,
        result |-> Top3(SortIds(NotCompleted(available, completed)))]

\* The available_modules lists callers pass.
AvailableLists ==
    { <<>>,
      <<"m1", "m2", "m3">>,
      <<"m3", "m2", "m10", "m1">>,
      <<"m2", "m10", "m2", "m1", "m3">> }

ChatIdle ==
    /\ env_key = <<>>
    /\ heap = <<>>
    /\ pc = "tracker"
    /\ conversation_state = NoState
    /\ channels = NoState
    /\ cur = "idle"
    /\ state = NoState
    /\ log = <<>>
    /\ lines_read = 0
    /\ executions = 0
    /\ turn = IdleTurn
    /\ stdout = ""

InitTracker == ChatIdle /\ TrackerIdle /\ ModuleIdle

record_module_completion(student_id, module_id, score) ==
    /\ pc = "tracker"
    /\ clock < MaxOps
    /\ student_progress' =
          RecordCompletion(student_progress, student_id, module_id, score, clock)
    /\ clock' = clock + 1
    /\ recorded' = Append(recorded, [student_id |-> student_id,
                                     module_id |-> module_id, score |-> score])
    /\ UNCHANGED <<chatVars, moduleVars, report, recommended>>

get_student_progress(student_id) ==
    /\ pc = "tracker"
    /\ clock < MaxOps
    /\ LET r == GetStudentProgress(student_progress, student_id)
       IN /\ student_progress' = r.registry
          /\ report' = <<[at |-> Len(recorded),
                          time |-> clock,
                          student_id |-> student_id,
                          aliased |-> r.aliased,
                          value |-> r.value,
                          registered |-> student_id \in DOMAIN r.registry,
                          edits |-> 0]>>
    /\ clock' = clock + 1
    /\ UNCHANGED <<chatVars, moduleVars, recorded, recommended>>

recommend_next_steps(student_id, available) ==
    /\ pc = "tracker"
    /\ clock < MaxOps
    /\ LET r == RecommendNextSteps(student_progress, student_id, available)
       IN /\ student_progress' = r.registry
          /\ recommended' = <<[at |-> Len(recorded),
                               time |-> clock,
                               student_id |-> student_id,
                               available |-> available,
                               result |-> r.result]>>
    /\ clock' = clock + 1
    /\ UNCHANGED <<chatVars, moduleVars, recorded, report>>

NextTracker ==
    \/ \E s \in Students, m \in Modules, score \in Scores :
          record_module_completion(s, m, score)
    \/ \E s \in Students : get_student_progress(s)
    \/ \E s \in Students, available \in AvailableLists :
          recommend_next_steps(s, available)

SpecTracker == InitTracker /\ [][NextTracker]_vars

\* The caller of get_student_progress appends to the completed_modules list
\* of the dict it was given: report["completed_modules"].append(module_id).
caller_modifies_report(module_id) ==
    /\ pc = "tracker"
    /\ clock < MaxOps
    /\ report # <<>>
    /\ IF report[1].aliased
       THEN /\ student_progress' =
                  [student_progress EXCEPT
                      ![report[1].student_id].completed_modules = Append(@, module_id)]
            /\ report' = <<[report[1] EXCEPT !.edits = @ + 1]>>
       ELSE /\ report' = <<[report[1] EXCEPT
                               !.edits = @ + 1,
                               !.value.completed_modules = Append(@, module_id)]>>
            /\ UNCHANGED student_progress
    /\ clock' = clock + 1
    /\ UNCHANGED <<chatVars, moduleVars, recorded, recommended>>

NextReport ==
    \/ NextTracker
    \/ \E m \in Modules : caller_modifies_report(m)

SpecReport == InitTracker /\ [][NextReport]_vars

-----------------------------------------------------------------------------
(* LearningModule.get_progress_summary *)

ExerciseIds == {"e1", "e2", "e3"}

\* The completed_exercises lists callers pass; "x9" is no exercise of the
\* module.
CompletedLists ==
    { <<>>, <<"e1">>, <<"e2", "e1">>, <<"x9">>, <<"e1", "e1", "x9">>,
      <<"e3", "e2", "e1">> }

CountGiven(exs, completed) == Len(completed)

\* len([ex for ex in self.exercises if ex.exercise_id in completed_exercises])
CountCompleted(exs, completed) ==
    Len(SelectSeq(exs, LAMBDA ex : Contains(completed, ex)))

\* (completed_count / total_exercises * 100) if total_exercises > 0 else 0,
\* kept as the exact fraction num/den.
ProgressPercentage(completed_count, total_exercises) ==
    IF total_exercises > 0
    THEN [num |-> completed_count * 100, den |-> total_exercises]
    ELSE [num |-> 0, den |-> 1]

\* The dict get_progress_summary returns (the fields computed from the
\* exercises).
ProgressSummary(exs, completed) ==
    LET total_exercises == Len(exs)
        completed_count == CountCompleted(exs, completed)
    IN [total_exercises |-> total_exercises,
        completed_exercises |-> completed_count,
        progress_percentage |-> ProgressPercentage(completed_count, total_exercises),
        is_complete |-> completed_count = total_exercises]

InitModule ==
    /\ ChatIdle
    /\ TrackerIdle
    /\ exercises \in UNION {[1..n -> ExerciseIds] : n \in 0..MaxExercises}
    /\ summary = <<>>

get_progress_summary(completed) ==
    /\ pc = "tracker"
    /\ summary' = <<[completed |-> completed,
                     value |-> ProgressSummary(exercises, completed)]>>
    /\ UNCHANGED <<chatVars, trackerVars, exercises>>

NextModule == \E completed \in CompletedLists : get_progress_summary(completed)

SpecModule == InitModule /\ [][NextModule]_vars

-----------------------------------------------------------------------------
(* Properties of chatbot_node, over the calls recorded in log *)

Calls == {log[i] : i \in 1..Len(log)}

\* C1: a call with non-empty pending input whose collaborator succeeds
\* returns pending input "", the history it was given followed by the user
\* message and then the reply (two longer, old messages in place), and the
\* reply's text as response.
C1_SuccessTurn ==
    \A c \in Calls :
        (c.pre.user_input # "" /\ c.out.kind = "ok") =>
            /\ c.ret # <<>>
            /\ c.ret[1].user_input = ""
            /\ c.ret[1].messages =
                   c.pre.messages \o <<[role |-> "user", content |-> c.pre.user_input],
                                       [role |-> "assistant", content |-> c.out.text]>>
            /\ Len(c.ret[1].messages) = Len(c.pre.messages) + 2
            /\ c.ret[1].response = c.out.text

C1_Witness ==
    \E c \in Calls : /\ c.pre.user_input # "" /\ c.out.kind = "ok"
                     /\ c.pre.messages # <<>> /\ c.ret # <<>>

\* C2: a call with non-empty pending input whose collaborator fails raises
\* nothing; it returns the history two longer (user message, then an
\* assistant message holding the error notice built from the failure
\* description) and the notice as response.
C2_FailureAbsorbed ==
    \A c \in Calls :
        (c.pre.user_input # "" /\ c.out.kind = "fail") =>
            LET notice == "Sorry, I encountered an error: " \o c.out.text
            IN /\ c.raised = <<>>
               /\ c.ret # <<>>
               /\ Len(c.ret[1].messages) = Len(c.pre.messages) + 2
               /\ c.ret[1].messages =
                      c.pre.messages \o <<[role |-> "user", content |-> c.pre.user_input],
                                          [role |-> "assistant", content |-> notice]>>
               /\ c.ret[1].response = notice

C2_Witness ==
    \E c \in Calls : /\ c.pre.user_input # "" /\ c.out.kind = "fail"
                     /\ c.out.text = "API Error" /\ c.ret # <<>>

\* C3: a call with empty pending input appends no user message: the history
\* returned is the one given plus exactly one assistant message, whose text
\* is the response.
C3_EmptyInputTurn ==
    \A c \in Calls :
        c.pre.user_input = "" =>
            /\ c.ret # <<>>
            /\ Len(c.ret[1].messages) = Len(c.pre.messages) + 1
            /\ SubSeq(c.ret[1].messages, 1, Len(c.pre.messages)) = c.pre.messages
            /\ c.ret[1].messages[Len(c.ret[1].messages)].role = "assistant"
            /\ c.ret[1].messages[Len(c.ret[1].messages)].content = c.ret[1].response

C3_Witness ==
    \E c \in Calls : c.pre.user_input = "" /\ c.pre.messages # <<>> /\ c.ret # <<>>

\* C4: every call returns a state, and its pending input is "", whether
\* the pending input was empty or not and whether the collaborator
\* succeeded or failed.
C4_InputCleared ==
    \A c \in Calls : c.ret # <<>> /\ c.ret[1].user_input = ""

C4_Witness ==
    \E c, d \in Calls : /\ c.out.kind = "ok" /\ c.pre.user_input # "" /\ c.ret # <<>>
                        /\ d.out.kind = "fail" /\ d.ret # <<>>

\* C5: a call leaves the state it was given as it was, history included,
\* and two calls on the same state dict with the same collaborator
\* behaviour return the same state.
C5_Pure ==
    /\ \A c \in Calls : c.input_after = c.pre
    /\ \A i, j \in 1..Len(log) : log[i].out = log[j].out => log[i].ret = log[j].ret

\* C7: every call invokes the collaborator exactly once, with the history
\* given plus the user message just appended; after a failure there is no
\* second invocation and the turn ends with exactly one error message
\* after what the collaborator was shown.
C7_OneInvocation ==
    \A c \in Calls :
        /\ Len(c.invoked) = 1
        /\ c.invoked[1] =
               IF c.pre.user_input # ""
               THEN Append(c.pre.messages, [role |-> "user", content |-> c.pre.user_input])
               ELSE c.pre.messages
        /\ (c.out.kind = "fail" /\ c.ret # <<>>) =>
               /\ Len(c.ret[1].messages) = Len(c.invoked[1]) + 1
               /\ SubSeq(c.ret[1].messages, 1, Len(c.invoked[1])) = c.invoked[1]

C7_Witness ==
    \E c \in Calls : /\ c.out.kind = "fail" /\ c.pre.user_input # ""
                     /\ Len(c.invoked) = 1 /\ c.ret # <<>>

-----------------------------------------------------------------------------
(* Properties of the graph execution and of the script *)

\* C6: an execution of the compiled graph runs chatbot_node exactly once
\* and then ends (it is at "chatbot" before the run and at END after it,
\* never back at a node), and chatbot.invoke returns the state that one
\* call returned.
C6_OneNodeRun ==
    /\ pc = "graph" =>
          /\ cur \in {"chatbot", "END"}
          /\ cur = "chatbot" => Len(log) = 0
          /\ cur = "END" => Len(log) = 1
    /\ (turn.kind = "invoke" /\ pc = "input") =>
          /\ Len(log) = 1
          /\ log[1].ret # <<>>
          /\ StateValue(heap, conversation_state) = log[1].ret[1]

C6_Witness ==
    /\ turn.kind = "invoke" /\ pc = "input" /\ executions = 2
    /\ Len(log) = 1 /\ log[1].ret # <<>>

\* What the lines of Lines are after trimming: a quit word in any case, an
\* empty line, or the text to send.
QuitLines == {<<"q","u","i","t">>, <<" ","E","X","I","T"," ">>, <<"B","y","e","\t">>}

BlankLines == {<<>>, <<" ">>, <<" ", "\t">>}

TypedText ==
    (<<"h","i">> :> "hi") @@ (<<" ","H","i"," ">> :> "Hi") @@
    (<<"b","y","e","s">> :> "byes") @@ (<<"q","u","i","t"," ","i","t">> :> "quit it")

\* C8: for the line read last: a quit word (any case, trimmed) ends the loop
\* with no graph execution and the state untouched; an empty line (after
\* trimming) runs nothing and leaves the state untouched; any other line
\* becomes the pending input of exactly one graph execution, whose
\* resulting state is the conversation state of the next turn.
C8_DriverTurn ==
    /\ turn.kind \in {"quit", "skip", "invoke"} =>
          /\ (turn.kind = "quit") = (turn.raw \in QuitLines)
          /\ (turn.kind = "skip") = (turn.raw \in BlankLines)
    /\ turn.kind = "quit" =>
          /\ pc = "done"
          /\ executions = turn.executions
          /\ StateValue(heap, conversation_state) = turn.before[1]
    /\ turn.kind = "skip" =>
          /\ pc = "input"
          /\ executions = turn.executions
          /\ StateValue(heap, conversation_state) = turn.before[1]
    /\ turn.kind = "invoke" =>
          LET sent == [turn.before[1] EXCEPT !.user_input = TypedText[turn.raw]]
          IN /\ executions = turn.executions + 1
             /\ pc \in {"graph", "input"}
             /\ (pc = "graph" /\ log = <<>>) => StateValue(heap, channels) = sent
             /\ pc = "input" =>
                   /\ Len(log) = 1
                   /\ log[1].pre = sent
                   /\ log[1].ret = <<StateValue(heap, conversation_state)>>

C8_Witness ==
    /\ turn.kind = "quit" /\ turn.raw = <<" ","E","X","I","T"," ">>
    /\ pc = "done" /\ lines_read = 3 /\ executions = 1
    /\ Len(StateValue(heap, conversation_state).messages) = 2

\* C9: with OPENAI_API_KEY unset or empty the script ends at the start: no
\* line is read, no graph execution and no node call happens; and the script
\* refuses only there, never once the loop has read a line.
C9_RefusesWithoutKey ==
    /\ (env_key = <<>> \/ env_key = <<"">>) =>
          /\ pc \in {"main", "exit1"}
          /\ lines_read = 0
          /\ executions = 0
          /\ log = <<>>
          /\ turn.kind = "none"
    /\ pc = "exit1" =>
          /\ env_key = <<>> \/ env_key = <<"">>
          /\ lines_read = 0
          /\ turn.kind = "none"

C9_Witness == pc = "exit1" /\ env_key = <<>> /\ lines_read = 0 /\ executions = 0

-----------------------------------------------------------------------------
(* Properties of the progress tracker *)

\* The calls recorded for student s, in order.
CallsOf(s) == SelectSeq(recorded, LAMBDA c : c.student_id = s)

\* The modules of a sequence of calls in order of first appearance.
RECURSIVE FirstAppearance(_)
FirstAppearance(calls) ==
    IF calls = <<>> THEN <<>>
    ELSE LET front == FirstAppearance(SubSeq(calls, 1, Len(calls) - 1))
             m == calls[Len(calls)].module_id
         IN IF \E i \in 1..Len(calls) - 1 : calls[i].module_id = m
            THEN front ELSE Append(front, m)

\* C10: after any sequence of record_module_completion calls a student's
\* completed list holds each module at most once, in order of first
\* completion, and the score stored for a module is the score of the most
\* recent call for that student and module.
C10_RecordIdempotent ==
    /\ DOMAIN student_progress = {recorded[i].student_id : i \in 1..Len(recorded)}
    /\ \A s \in DOMAIN student_progress :
          LET p == student_progress[s]
              calls == CallsOf(s)
          IN /\ \A i, j \in 1..Len(p.completed_modules) :
                    p.completed_modules[i] = p.completed_modules[j] => i = j
             /\ p.completed_modules = FirstAppearance(calls)
             /\ DOMAIN p.module_scores = {calls[i].module_id : i \in 1..Len(calls)}
             /\ \A i \in 1..Len(calls) :
                    (\A j \in i + 1..Len(calls) : calls[j].module_id # calls[i].module_id)
                        => p.module_scores[calls[i].module_id] = calls[i].score

C10_Witness ==
    \E s \in DOMAIN student_progress :
        /\ Len(CallsOf(s)) = 3
        /\ CallsOf(s)[1].module_id = CallsOf(s)[3].module_id
        /\ CallsOf(s)[1].score # CallsOf(s)[3].score
        /\ Len(student_progress[s].completed_modules) = 2

\* The modules student s had completed after the first n recorded calls.
DoneBy(s, n) ==
    {recorded[i].module_id : i \in {k \in 1..n : recorded[k].student_id = s}}

\* The module ids in Python's str order, written out.
ExpectedOrder == <<"m1", "m10", "m2", "m3">>

Rank(m) == CHOOSE i \in 1..Len(ExpectedOrder) : ExpectedOrder[i] = m

Count(list, m) == Cardinality({i \in 1..Len(list) : list[i] = m})

\* C11: recommend_next_steps returns the first at most 3 of the available
\* entries not completed by the student, in lexicographic order: the result
\* is ordered, is as long as min(3, number of entries left), takes its
\* entries from the entries left, and leaves out none that is smaller than
\* one it holds (so the result is determined by the inputs); with nothing
\* completed, [m1, m2, m3] gives [m1, m2, m3].
C11_Recommendation ==
    recommended # <<>> =>
        LET c == recommended[1]
            done == DoneBy(c.student_id, c.at)
            left == SelectSeq(c.available, LAMBDA m : m \notin done)
            res == c.result
        IN /\ Len(res) = IF Len(left) < 3 THEN Len(left) ELSE 3
           /\ \A i, j \in 1..Len(res) : i < j => Rank(res[i]) <= Rank(res[j])
           /\ \A m \in DOMAIN CodePoints : Count(res, m) <= Count(left, m)
           /\ \A m \in DOMAIN CodePoints :
                  Count(left, m) > Count(res, m) =>
                      \A k \in 1..Len(res) : Rank(res[k]) <= Rank(m)
           /\ (done = {} /\ c.available = <<"m1", "m2", "m3">>) =>
                  res = <<"m1", "m2", "m3">>

C11_Witness ==
    /\ recommended # <<>>
    /\ recommended[1].available = <<"m2", "m10", "m2", "m1", "m3">>
    /\ DoneBy(recommended[1].student_id, recommended[1].at) = {"m3"}
    /\ recommended[1].result = <<"m1", "m10", "m2">>

\* C12: get_student_progress for a student id no completion was recorded
\* for returns the zero report (empty list, empty score map, progress 0,
\* no timestamps) and leaves the student without a record.
C12_UnknownStudent ==
    /\ \A s \in DOMAIN student_progress : DoneBy(s, Len(recorded)) # {}
    /\ (report # <<>> /\ DoneBy(report[1].student_id, report[1].at) = {}
                      /\ report[1].edits = 0) =>
          /\ ~report[1].registered
          /\ report[1].value =
                [student_id |-> report[1].student_id,
                 completed_modules |-> <<>>,
                 module_scores |-> <<>>,
                 overall_progress |-> [num |-> 0, den |-> 1],
                 start_date |-> <<>>,
                 last_activity |-> <<>>]

C12_Witness ==
    /\ report # <<>>
    /\ DoneBy(report[1].student_id, report[1].at) = {}
    /\ report[1].at = 1
    /\ report[1].student_id \notin DOMAIN student_progress

\* C14: the overall progress reported for a known student is the number of
\* modules completed over 9, times 100, whatever available lists were
\* passed to recommend_next_steps before.
C14_FixedCatalog ==
    (report # <<>> /\ DoneBy(report[1].student_id, report[1].at) # {}) =>
        LET p == report[1].value.overall_progress
            n == Cardinality(DoneBy(report[1].student_id, report[1].at))
        IN /\ p.den > 0
           /\ p.num * 9 = n * 100 * p.den

C14_Witness ==
    /\ report # <<>> /\ recommended # <<>>
    /\ recommended[1].time < report[1].time
    /\ Len(recommended[1].available) = 3
    /\ Cardinality(DoneBy(report[1].student_id, report[1].at)) = 1
    /\ report[1].value.overall_progress = [num |-> 100, den |-> 9]

\* C16: a record_module_completion call for student s leaves every other
\* student's record (and absence of a record) as it was, and
\* get_student_progress and recommend_next_steps leave the whole registry
\* as it was.
C16_Independent ==
    [][/\ recorded' # recorded =>
             \A t \in Students \ {recorded'[Len(recorded')].student_id} :
                 /\ (t \in DOMAIN student_progress') = (t \in DOMAIN student_progress)
                 /\ t \in DOMAIN student_progress =>
                        student_progress'[t] = student_progress[t]
       /\ recorded' = recorded => student_progress' = student_progress]_vars

C16_Witness ==
    /\ DOMAIN student_progress = Students
    /\ Len(recorded) = 2
    /\ recommended # <<>> /\ recommended[1].at = 1

\* C17: every completion recorded so far is still there: the student has a
\* record and the module is in its completed list; and a
\* recommend_next_steps result holds no module the student had completed
\* when it was asked.
C17_Permanent ==
    /\ \A i \in 1..Len(recorded) :
          /\ recorded[i].student_id \in DOMAIN student_progress
          /\ Contains(student_progress[recorded[i].student_id].completed_modules,
                      recorded[i].module_id)
    /\ recommended # <<>> =>
          \A m \in DoneBy(recommended[1].student_id, recommended[1].at) :
              ~Contains(recommended[1].result, m)

C17_Witness ==
    /\ recommended # <<>>
    /\ recommended[1].available = <<"m1", "m2", "m3">>
    /\ DoneBy(recommended[1].student_id, recommended[1].at) = {"m2"}
    /\ recommended[1].result = <<"m1", "m3">>
    /\ Len(recorded) = 2

\* C13: the dict get_student_progress returned is a snapshot: a later
\* record_module_completion call changes neither its completed list nor
\* its score map, and appending to its completed list changes nothing in
\* the registry.
C13_Snapshot ==
    [][(report # <<>> /\ report' # <<>>) =>
          /\ recorded' # recorded =>
                /\ ReportView(student_progress', report'[1]).completed_modules =
                       ReportView(student_progress, report[1]).completed_modules
                /\ ReportView(student_progress', report'[1]).module_scores =
                       ReportView(student_progress, report[1]).module_scores
          /\ (report'[1].time = report[1].time /\ report'[1].edits # report[1].edits) =>
                student_progress' = student_progress]_vars

-----------------------------------------------------------------------------
(* Properties of get_progress_summary *)

\* C15: the summary counts the module's exercises whose id is in the given
\* list (ids that are no exercise of the module add nothing), the
\* percentage is that count over the number of exercises times 100, and a
\* module without exercises gets 0.
C15_ProgressSummary ==
    summary # <<>> =>
        LET given == {summary[1].completed[i] : i \in 1..Len(summary[1].completed)}
            hits == Cardinality({i \in 1..Len(exercises) : exercises[i] \in given})
            v == summary[1].value
        IN /\ v.total_exercises = Len(exercises)
           /\ v.completed_exercises = hits
           /\ v.completed_exercises <= v.total_exercises
           /\ v.progress_percentage.den > 0
           /\ Len(exercises) > 0 =>
                  v.progress_percentage.num * Len(exercises) =
                      hits * 100 * v.progress_percentage.den
           /\ Len(exercises) = 0 => v.progress_percentage.num = 0

C15_Witness ==
    /\ summary # <<>>
    /\ summary[1].completed = <<"e1", "e1", "x9">>
    /\ exercises = <<"e2", "e1", "e1">>
    /\ summary[1].value.completed_exercises = 2

====
